---- MODULE Spec2Model ----
(***************************************************************************)
(* The DAG simple_el_dag_3 of dags/simple_el_3.py as a state machine.      *)
(*                                                                         *)
(* The file declares tasks and their dependencies; the task instances of   *)
(* one DAG run are executed by the Airflow scheduler.  The model holds the *)
(* state the tasks read and write (the Airflow Variable aws_configs, the   *)
(* local CSV file, the S3 bucket contents, the Redshift tables, the XComs) *)
(* and the state of every task instance of the current DAG run.            *)
(*                                                                         *)
(* What the file leaves to Airflow is modelled as Airflow does it for the  *)
(* arguments the file passes: trigger rule all_success (no trigger_rule is *)
(* given), no retries (default_args sets none), `a >> b` adds an edge from *)
(* every leaf of a to every root of b (a TaskGroup stands for the tasks it *)
(* holds), and a DAG run is failed when a leaf task instance is failed or  *)
(* upstream_failed, successful when every leaf succeeded.                  *)
(***************************************************************************)
EXTENDS Naturals, Sequences, FiniteSets, TLC

VARIABLES
    aws_configs,    \* the Airflow Variable "aws_configs" (deserialized JSON)
    csv,            \* the bytes of the local file CSV_FILE_PATH
    ffv,            \* include/validation/forestfire_validation.json, parsed
    dag,            \* the DAG object built by evaluating the module body
    s3,             \* the objects held by the object store
    redshift,       \* table name -> set of rows
    ti,             \* task id -> state of its task instance in this run
    try_number,     \* task id -> number of times the instance was started
    xcom,           \* task id -> return value pushed by the task, or None
    etag_seen,      \* what validate_etag compared in this run (and the
                    \* bytes the file had then), or None
    copy_src        \* the bucket/key load_to_redshift copied from, or None

vars == <<aws_configs, csv, ffv, dag, s3, redshift, ti, try_number, xcom,
          etag_seen, copy_src>>

-----------------------------------------------------------------------------
(* Bounds of the model *)

\* number of record identifiers a ground-truth file may hold
MaxIds == 2

Ids == {ToString(i) : i \in 1..MaxIds}

\* Python's None, where a dictionary may stand
None == [none |-> TRUE]

-----------------------------------------------------------------------------
(* Inputs *)

CSV_FILE_NAME == "forestfires.csv"
CSV_FILE_PATH == "include/sample_data/" \o CSV_FILE_NAME

\* Values the Variable aws_configs may hold: two destinations in the object
\* store, one warehouse table.
AwsConfigValues ==
    { [s3_bucket |-> "b1", s3_key_prefix |-> "p1", redshift_table |-> "t1"],
      [s3_bucket |-> "b2", s3_key_prefix |-> "p2", redshift_table |-> "t1"] }

Tables == {c.redshift_table : c \in AwsConfigValues}

\* Contents the local CSV file may have.  "good" holds the rows of the
\* ground truth, "bad1" differs from it in the row of id "1", "good_crlf"
\* is "good" with CRLF line ends.
FileContents == {"good", "bad1", "good_crlf"}

\* The value of the one checked column in the row of `id` of a file.
RowValue(body, id) == IF body = "bad1" /\ id = "1" THEN "v2" ELSE "v1"

\* The rows a COPY of the file with copy_options ['csv'] appends.
RowsOf(body) == {[id |-> id, temp |-> RowValue(body, id)] : id \in Ids}

\* Ground-truth files: a JSON object id -> {column -> expected value}, with
\* N = 0..MaxIds entries.  JSON object keys are unique, so a file is a
\* function on its identifiers.
GroundTruthFiles ==
    { [id \in {ToString(i) : i \in 1..n} |-> [temp |-> "v1"]] :
        n \in 0..MaxIds }

-----------------------------------------------------------------------------
(* Digests *)

Quote == "\""

MD5(bytes) == "md5(" \o bytes \o ")"

\* open(CSV_FILE_PATH).read(): text mode with universal newlines turns CRLF
\* into LF; .encode("utf-8") gives back the bytes of the translated text.
ReadTextEncode(body) == IF body = "good_crlf" THEN "good" ELSE body

\* hashlib.md5(open(CSV_FILE_PATH).read().encode("utf-8")).hexdigest()
file_hash(body) == <<MD5(ReadTextEncode(body))>>

\* The ETag S3 reports for an object put by load_file in a single part (the
\* file is far below the multipart threshold): the quoted MD5 of the bytes.
ETagOf(body) == <<Quote, MD5(body), Quote>>

RECURSIVE LStrip(_, _)
LStrip(s, ch) ==
    IF s # <<>> /\ Head(s) = ch THEN LStrip(Tail(s), ch) ELSE s

RECURSIVE RStrip(_, _)
RStrip(s, ch) ==
    IF s # <<>> /\ s[Len(s)] = ch
    THEN RStrip(SubSeq(s, 1, Len(s) - 1), ch)
    ELSE s

\* str.strip(ch)
Strip(s, ch) == RStrip(LStrip(s, ch), ch)

-----------------------------------------------------------------------------
(* The object store, as S3Hook uses it *)

ObjectsAt(objects, key, bucket_name) ==
    {o \in objects : o.bucket = bucket_name /\ o.key = key}

\* S3Hook.load_file(filename, key, bucket_name, replace)
load_file(objects, body, key, bucket_name, replace) ==
    IF ~replace /\ ObjectsAt(objects, key, bucket_name) # {}
    THEN [ok |-> FALSE, objects |-> objects]
    ELSE [ok |-> TRUE,
          objects |-> (objects \ ObjectsAt(objects, key, bucket_name))
                      \cup {[bucket |-> bucket_name, key |-> key,
                             body |-> body, e_tag |-> ETagOf(body)]}]

\* The key upload_to_s3 computes from the Variable.
S3Key(cfg) == cfg.s3_key_prefix \o "/" \o CSV_FILE_PATH

\* The dictionary upload_to_s3 returns.
Descriptor(cfg) == [s3_bucket |-> cfg.s3_bucket, s3_key |-> S3Key(cfg)]

\* A variant of UploadResult: the upload without replace.
UploadResultNoReplace(objects, cfg, body) ==
    load_file(objects, body, S3Key(cfg), cfg.s3_bucket, FALSE)

\* upload_to_s3's call of load_file
UploadResult(objects, cfg, body) ==
    load_file(objects, body, S3Key(cfg), cfg.s3_bucket, TRUE)

-----------------------------------------------------------------------------
(* The DAG the module body builds *)

\* The task_id argument of the check of id (the TaskGroup puts its group_id
\* before it).
CheckTaskId(id) == "forestfire_row_quality_check_" \o id

ChainTasks ==
    {"upload_to_s3", "validate_etag", "create_table", "load_to_redshift",
     "validate_redshift"}

\* A variant of CheckParams: every task gets the identifier "1".
CheckParamsStaleId(values, id, cfg) ==
    [k \in DOMAIN values \cup {"id", "redshift_table"} |->
        IF k = "id" THEN "1"
        ELSE IF k = "redshift_table" THEN cfg.redshift_table
        ELSE values[k]]

\* The loop body of row_quality_checks: values["id"] = id,
\* values["redshift_table"] = <Variable>, params = values.
CheckParams(values, id, cfg) ==
    [k \in DOMAIN values \cup {"id", "redshift_table"} |->
        IF k = "id" THEN id
        ELSE IF k = "redshift_table" THEN cfg.redshift_table
        ELSE values[k]]

\* The tasks created inside the TaskGroup row_quality_checks.
quality_check_group(json) == {CheckTaskId(id) : id \in DOMAIN json}

\* a >> b for task-likes given as the sets of their leaf and root tasks: a
\* task is its own root and leaf, a TaskGroup without inner edges has all its
\* tasks as roots and leaves.
SetDownstream(a, b) == a \X b

\* A variant of Dependencies: done follows validate_redshift, beside the
\* group.
DependenciesDoneBesideGroup(group) ==
    SetDownstream({"upload_to_s3"}, {"validate_etag"})
    \cup SetDownstream({"validate_etag"}, {"create_table"})
    \cup SetDownstream({"create_table"}, {"load_to_redshift"})
    \cup SetDownstream({"load_to_redshift"}, {"validate_redshift"})
    \cup SetDownstream({"validate_redshift"}, group \cup {"done"})

\* A variant of Dependencies: the check of id "1" precedes its siblings.
DependenciesChainedChecks(group) ==
    SetDownstream({"upload_to_s3"}, {"validate_etag"})
    \cup SetDownstream({"validate_etag"}, {"create_table"})
    \cup SetDownstream({"create_table"}, {"load_to_redshift"})
    \cup SetDownstream({"load_to_redshift"}, {"validate_redshift"})
    \cup SetDownstream({"validate_redshift"}, group)
    \cup SetDownstream(group \cap {"forestfire_row_quality_check_1"},
                       group \ {"forestfire_row_quality_check_1"})
    \cup SetDownstream(group, {"done"})

\* validate_etag(upload_file) and the five `>>` lines.
Dependencies(group) ==
    SetDownstream({"upload_to_s3"}, {"validate_etag"})
    \cup SetDownstream({"validate_etag"}, {"create_table"})
    \cup SetDownstream({"create_table"}, {"load_to_redshift"})
    \cup SetDownstream({"load_to_redshift"}, {"validate_redshift"})
    \cup SetDownstream({"validate_redshift"}, group)
    \cup SetDownstream(group, {"done"})

\* Evaluating the module body with the Variable holding cfg and the
\* ground-truth file holding json.
ParseDag(cfg, json) ==
    [ tasks  |-> ChainTasks \cup quality_check_group(json) \cup {"done"},
      group  |-> quality_check_group(json),
      checks |-> [id \in DOMAIN json |-> CheckParams(json[id], id, cfg)],
      create |-> [redshift_table |-> cfg.redshift_table],
      load   |-> [s3_bucket |-> cfg.s3_bucket,
                  s3_key    |-> cfg.s3_key_prefix \o "/" \o CSV_FILE_PATH,
                  table     |-> cfg.redshift_table],
      edges  |-> Dependencies(quality_check_group(json)) ]

AllTaskIds == ChainTasks \cup {CheckTaskId(id) : id \in Ids} \cup {"done"}

Upstream(t) == {e[1] : e \in {d \in dag.edges : d[2] = t}}

Downstream(t) == {e[2] : e \in {d \in dag.edges : d[1] = t}}

DagLeaves == {t \in dag.tasks : Downstream(t) = {}}

-----------------------------------------------------------------------------
(* Task instances and the DAG run *)

Finished == {"success", "failed", "upstream_failed"}

FreshInstances == [t \in AllTaskIds |-> "none"]

RunFinished == \A t \in dag.tasks : ti[t] \in Finished

\* DagRun.update_state
RunState ==
    IF ~RunFinished THEN "running"
    ELSE IF \E t \in DagLeaves : ti[t] \in {"failed", "upstream_failed"}
         THEN "failed"
         ELSE "success"

Init ==
    /\ aws_configs \in AwsConfigValues
    /\ csv \in FileContents
    /\ ffv \in GroundTruthFiles
    /\ dag = ParseDag(aws_configs, ffv)
    /\ s3 = {}
    /\ redshift = [t \in Tables |-> {}]
    /\ ti = FreshInstances
    /\ try_number = [t \in AllTaskIds |-> 0]
    /\ xcom = [t \in {"upload_to_s3", "validate_etag"} |-> None]
    /\ etag_seen = None
    /\ copy_src = None

\* A variant of ready: trigger rule all_done.
ready_all_done(t) ==
    /\ t \in dag.tasks
    /\ ti[t] = "none"
    /\ \A u \in Upstream(t) : ti[u] \in Finished

\* Trigger rule all_success, the default: no task sets trigger_rule.
ready(t) ==
    /\ t \in dag.tasks
    /\ ti[t] = "none"
    /\ \A u \in Upstream(t) : ti[u] = "success"

\* The scheduler queues a task instance whose upstream all succeeded.
Start(t) ==
    /\ ready(t)
    /\ ti' = [ti EXCEPT ![t] = "running"]
    /\ try_number' = [try_number EXCEPT ![t] = @ + 1]
    /\ UNCHANGED <<aws_configs, csv, ffv, dag, s3, redshift, xcom, etag_seen,
                   copy_src>>

\* Trigger rule all_success: an instance with a failed upstream is not run.
UpstreamFailed(t) ==
    /\ t \in dag.tasks
    /\ ti[t] = "none"
    /\ \E u \in Upstream(t) : ti[u] \in {"failed", "upstream_failed"}
    /\ ti' = [ti EXCEPT ![t] = "upstream_failed"]
    /\ UNCHANGED <<aws_configs, csv, ffv, dag, s3, redshift, try_number, xcom,
                   etag_seen, copy_src>>

\* A variant of Outcome: a failed instance is scheduled again.
OutcomeRetry(ok) == IF ok THEN "success" ELSE "none"

\* The state an instance ends in: no retries are configured.
Outcome(ok) == IF ok THEN "success" ELSE "failed"

upload_to_s3 ==
    /\ ti["upload_to_s3"] = "running"
    /\ \E transport_ok \in BOOLEAN :
        LET r == UploadResult(s3, aws_configs, csv)
            ok == transport_ok /\ r.ok
        IN  /\ s3' = IF ok THEN r.objects ELSE s3
            /\ xcom' = IF ok
                       THEN [xcom EXCEPT !["upload_to_s3"] =
                                            Descriptor(aws_configs)]
                       ELSE xcom
            /\ ti' = [ti EXCEPT !["upload_to_s3"] = Outcome(ok)]
    /\ UNCHANGED <<aws_configs, csv, ffv, dag, redshift, try_number,
                   etag_seen, copy_src>>

\* What validate_etag returns when the digests match.
validate_etag_return(s3_data) == s3_data

\* The comparison of validate_etag
EtagMatches(obj_etag, hash) == obj_etag = hash

validate_etag ==
    /\ ti["validate_etag"] = "running"
    /\ LET s3_data == xcom["upload_to_s3"]
           found == ObjectsAt(s3, s3_data.s3_key, s3_data.s3_bucket)
       IN  \E transport_ok \in BOOLEAN :
             IF transport_ok /\ found # {}
             THEN \E obj \in found :
                    LET obj_etag == Strip(obj.e_tag, Quote)
                        hash == file_hash(csv)
                        ok == EtagMatches(obj_etag, hash)
                    IN  /\ etag_seen' = [obj_etag |-> obj_etag,
                                         file_hash |-> hash,
                                         file_bytes |-> csv]
                        /\ ti' = [ti EXCEPT !["validate_etag"] = Outcome(ok)]
                        /\ xcom' = IF ok
                                   THEN [xcom EXCEPT !["validate_etag"] =
                                             validate_etag_return(s3_data)]
                                   ELSE xcom
             ELSE /\ ti' = [ti EXCEPT !["validate_etag"] = "failed"]
                  /\ UNCHANGED <<xcom, etag_seen>>
    /\ UNCHANGED <<aws_configs, csv, ffv, dag, s3, redshift, try_number,
                   copy_src>>

\* PostgresOperator create_table: the statement of the SQL file runs on the
\* parse-time table name; it succeeds or the connector raises.
create_table ==
    /\ ti["create_table"] = "running"
    /\ \E ok \in BOOLEAN : ti' = [ti EXCEPT !["create_table"] = Outcome(ok)]
    /\ UNCHANGED <<aws_configs, csv, ffv, dag, s3, redshift, try_number, xcom,
                   etag_seen, copy_src>>

\* S3ToRedshiftOperator: COPY <table> FROM 's3://<s3_bucket>/<s3_key>' csv,
\* with the arguments the module body gave it.
load_to_redshift ==
    /\ ti["load_to_redshift"] = "running"
    /\ LET a == dag.load
           found == ObjectsAt(s3, a.s3_key, a.s3_bucket)
       IN  /\ copy_src' = [s3_bucket |-> a.s3_bucket, s3_key |-> a.s3_key]
           /\ \E connector_ok \in BOOLEAN :
                IF connector_ok /\ found # {}
                THEN \E obj \in found :
                       /\ redshift' = [redshift EXCEPT ![a.table] =
                                          @ \cup RowsOf(obj.body)]
                       /\ ti' = [ti EXCEPT !["load_to_redshift"] = "success"]
                ELSE /\ ti' = [ti EXCEPT !["load_to_redshift"] = "failed"]
                     /\ UNCHANGED redshift
    /\ UNCHANGED <<aws_configs, csv, ffv, dag, s3, try_number, xcom,
                   etag_seen>>

\* SQLCheckOperator validate_redshift: fails when the query on
\* stl_load_errors reports an error for CSV_FILE_NAME.
validate_redshift ==
    /\ ti["validate_redshift"] = "running"
    /\ \E ok \in BOOLEAN :
         ti' = [ti EXCEPT !["validate_redshift"] = Outcome(ok)]
    /\ UNCHANGED <<aws_configs, csv, ffv, dag, s3, redshift, try_number, xcom,
                   etag_seen, copy_src>>

\* The rows sql/forestfire_row_quality_check.sql selects for params.
SelectedRows(params) ==
    {r \in redshift[params.redshift_table] : r.id = params.id}

\* The assertion of the check: the row has exactly the expected values.
RowMatches(row, params) ==
    \A k \in DOMAIN params \ {"id", "redshift_table"} : row[k] = params[k]

\* SQLCheckOperator forestfire_row_quality_check_<id>: the first record of
\* the query decides; no record fails the check.
row_quality_check(id) ==
    /\ id \in DOMAIN dag.checks
    /\ ti[CheckTaskId(id)] = "running"
    /\ LET params == dag.checks[id]
           rows == SelectedRows(params)
       IN  IF rows = {}
           THEN ti' = [ti EXCEPT ![CheckTaskId(id)] = "failed"]
           ELSE \E first \in rows :
                  ti' = [ti EXCEPT ![CheckTaskId(id)] =
                            Outcome(RowMatches(first, params))]
    /\ UNCHANGED <<aws_configs, csv, ffv, dag, s3, redshift, try_number, xcom,
                   etag_seen, copy_src>>

\* DummyOperator done
done ==
    /\ ti["done"] = "running"
    /\ ti' = [ti EXCEPT !["done"] = "success"]
    /\ UNCHANGED <<aws_configs, csv, ffv, dag, s3, redshift, try_number, xcom,
                   etag_seen, copy_src>>

-----------------------------------------------------------------------------
(* The environment *)

\* Somebody sets the Airflow Variable.
SetVariable(cfg) ==
    /\ cfg # aws_configs
    /\ aws_configs' = cfg
    /\ UNCHANGED <<csv, ffv, dag, s3, redshift, ti, try_number, xcom,
                   etag_seen, copy_src>>

\* Somebody rewrites the local file.
AlterLocalFile(body) ==
    /\ body # csv
    /\ csv' = body
    /\ UNCHANGED <<aws_configs, ffv, dag, s3, redshift, ti, try_number, xcom,
                   etag_seen, copy_src>>

\* Airflow loads the DAG file again: the module body is evaluated with the
\* Variable as it is now.
Reparse ==
    /\ dag' = ParseDag(aws_configs, ffv)
    /\ dag' # dag
    /\ UNCHANGED <<aws_configs, csv, ffv, s3, redshift, ti, try_number, xcom,
                   etag_seen, copy_src>>

\* The DAG is triggered again (schedule_interval=None): a new DAG run with
\* fresh task instances; the bucket and the warehouse keep their contents.
TriggerRun ==
    /\ RunFinished
    /\ ti' = FreshInstances
    /\ try_number' = [t \in AllTaskIds |-> 0]
    /\ xcom' = [t \in DOMAIN xcom |-> None]
    /\ etag_seen' = None
    /\ copy_src' = None
    /\ UNCHANGED <<aws_configs, csv, ffv, dag, s3, redshift>>

TaskStep ==
    \/ \E t \in AllTaskIds : Start(t)
    \/ \E t \in AllTaskIds : UpstreamFailed(t)
    \/ upload_to_s3
    \/ validate_etag
    \/ create_table
    \/ load_to_redshift
    \/ validate_redshift
    \/ \E id \in Ids : row_quality_check(id)
    \/ done

Environment ==
    \/ \E cfg \in AwsConfigValues : SetVariable(cfg)
    \/ \E body \in FileContents : AlterLocalFile(body)
    \/ Reparse
    \/ TriggerRun

Next == TaskStep \/ Environment

Spec == Init /\ [][Next]_vars

\* The scheduler runs every task instance that is ready, and a running
\* instance ends.
FairSpec == Spec /\ WF_vars(TaskStep)

-----------------------------------------------------------------------------
(* Properties *)

\* A task instance that was executed: it is running or has ended by itself.
Executed(t) == ti[t] \in {"running", "success", "failed"}

\* The digest of the stored object as validate_etag fetched it (the ETag
\* with its quotes stripped) differs from the MD5 digest of the bytes the
\* local file had then.
DigestsDiffer ==
    etag_seen # None /\ etag_seen.obj_etag # <<MD5(etag_seen.file_bytes)>>

\* The digest of the stored object as validate_etag fetched it equals the
\* MD5 digest of the bytes the local file had then.
DigestsEqual ==
    etag_seen # None /\ etag_seen.obj_etag = <<MD5(etag_seen.file_bytes)>>

\* The two values validate_etag compared, obj_etag and file_hash, differ.
ComparedDiffer ==
    etag_seen # None /\ etag_seen.obj_etag # etag_seen.file_hash

\* The two values validate_etag compared, obj_etag and file_hash, are equal.
ComparedEqual ==
    etag_seen # None /\ etag_seen.obj_etag = etag_seen.file_hash

\* The steps after the verification.
WarehouseSteps == dag.tasks \ {"upload_to_s3", "validate_etag"}

\* validate_etag failed and no warehouse step was executed.
HaltedBeforeWarehouse ==
    /\ ti["validate_etag"] = "failed"
    /\ \A t \in WarehouseSteps : try_number[t] = 0 /\ ~Executed(t)

\* C1: when the digest of the stored object differs from the MD5 digest of
\* the local file at the time validate_etag executes, validate_etag fails
\* and no warehouse step (create_table, load_to_redshift, validate_redshift,
\* the row checks, done) is ever executed in that run.
C1_MismatchHaltsWarehouse == DigestsDiffer => HaltedBeforeWarehouse

\* The part of C1 the code keeps: when the values validate_etag compares
\* differ and the ground-truth file has at least one entry, validate_etag
\* fails and no warehouse step is executed.
ComparedMismatchHaltsWarehouseWithChecks ==
    (ComparedDiffer /\ dag.group # {}) => HaltedBeforeWarehouse

\* validate_etag ends in this step.
ValidateEtagEnds ==
    ti["validate_etag"] = "running" /\ ti'["validate_etag"] # "running"

\* validate_etag succeeded and passed on what upload_to_s3 returned.
PassedThrough ==
    /\ ti["validate_etag"] = "success"
    /\ xcom["upload_to_s3"] \in {Descriptor(c) : c \in AwsConfigValues}
    /\ xcom["validate_etag"] = xcom["upload_to_s3"]

\* The step in which validate_etag ends changes neither the object store
\* nor what upload_to_s3 returned.
ValidateEtagWritesNothing ==
    [][ValidateEtagEnds =>
         /\ s3' = s3
         /\ xcom'["upload_to_s3"] = xcom["upload_to_s3"]]_vars

\* C2: whenever the digest of the stored object equals the MD5 digest of the
\* local file, validate_etag succeeds and returns the descriptor
\* upload_to_s3 returned, unchanged, and writes nothing to the object store.
C2_MatchPassesThrough ==
    /\ [](DigestsEqual => PassedThrough)
    /\ ValidateEtagWritesNothing

\* The part of C2 the code keeps: whenever the values validate_etag compares
\* are equal, it succeeds and returns the descriptor unchanged, and it
\* writes nothing to the object store.
ComparedMatchPassesThrough ==
    /\ [](ComparedEqual => PassedThrough)
    /\ ValidateEtagWritesNothing

\* C3: the bucket and key load_to_redshift copies from are those of the
\* object upload_to_s3 wrote and validate_etag verified in the same run.
C3_LoadCopiesVerifiedObject ==
    copy_src # None => copy_src = xcom["validate_etag"]

\* The parameters C4 states for the check of id: the expected column values
\* of the entry plus its id.
ValuesPlusId(id) ==
    [k \in DOMAIN ffv[id] \cup {"id"} |->
        IF k = "id" THEN id ELSE ffv[id][k]]

\* The parameters the check of id has: the expected column values of the
\* entry, with "id" set to the identifier and "redshift_table" set to the
\* table name of the Variable.
ValuesPlusIdAndTable(id) ==
    [k \in DOMAIN ffv[id] \cup {"id", "redshift_table"} |->
        IF k = "id" THEN id
        ELSE IF k = "redshift_table" THEN dag.create.redshift_table
        ELSE ffv[id][k]]

\* One check task per identifier of the ground-truth file and no other.
OneTaskPerIdentifier ==
    /\ dag.group = {CheckTaskId(id) : id \in DOMAIN ffv}
    /\ Cardinality(dag.group) = Cardinality(DOMAIN ffv)
    /\ dag.tasks \ (ChainTasks \cup {"done"}) = dag.group
    /\ DOMAIN dag.checks = DOMAIN ffv
    /\ \A id \in Ids \ DOMAIN ffv : CheckTaskId(id) \notin dag.tasks

\* C4 as stated: for a ground-truth file of N entries the group holds
\* exactly N check tasks, one per identifier, the parameters of each being
\* the expected column values of its entry plus its id.
C4_ParamsAreValuesPlusId ==
    /\ OneTaskPerIdentifier
    /\ \A id \in DOMAIN ffv : dag.checks[id] = ValuesPlusId(id)

\* C4 amended: for a ground-truth file of N entries the group holds exactly
\* N check tasks, one per identifier, the parameters of each being the
\* expected column values of its entry plus its id and the redshift_table
\* name read from aws_configs when the module body was evaluated.
C4_ParamsAreValuesPlusIdAndTable ==
    /\ OneTaskPerIdentifier
    /\ \A id \in DOMAIN ffv :
         /\ dag.checks[id] = ValuesPlusIdAndTable(id)
         /\ dag.checks[id].redshift_table \in Tables

C4_Witness ==
    /\ Cardinality(DOMAIN ffv) >= 2
    /\ \A t \in dag.group : ti[t] = "success"

\* The row of the warehouse for these parameters diverges from the ground
\* truth: no selected row has the expected values.
RowDiverges(params) ==
    \A r \in SelectedRows(params) : ~RowMatches(r, params)

\* The row of the warehouse for these parameters agrees with the ground
\* truth: a row is selected and every selected row has the expected values.
RowAgrees(params) ==
    /\ SelectedRows(params) # {}
    /\ \A r \in SelectedRows(params) : RowMatches(r, params)

\* The check of id ends in this step.
CheckEnds(id) ==
    ti[CheckTaskId(id)] = "running" /\ ti'[CheckTaskId(id)] # "running"

C6_FanOutThenJoin ==
    /\ Executed("done") => \A t \in dag.group : ti[t] = "success"
    /\ \A t \in dag.group :
         Executed(t) => ti["validate_redshift"] = "success"

C6_Witness ==
    /\ Cardinality(dag.group) >= 2
    /\ ti["done"] = "running"

\* The checks of the group run at the same time.
ChecksRunConcurrently ==
    /\ Cardinality(dag.group) >= 2
    /\ \A t \in dag.group : ti[t] = "running"

\* The step before t in the order upload_to_s3, validate_etag, create_table,
\* load_to_redshift, validate_redshift, row checks, done.
Predecessors(t) ==
    CASE t = "upload_to_s3" -> {}
      [] t = "validate_etag" -> {"upload_to_s3"}
      [] t = "create_table" -> {"validate_etag"}
      [] t = "load_to_redshift" -> {"create_table"}
      [] t = "validate_redshift" -> {"load_to_redshift"}
      [] t = "done" -> {"validate_redshift"} \cup dag.group
      [] OTHER -> {"validate_redshift"}

\* C7: a step is started only after its predecessor succeeded, no step is
\* executed twice, and a run with a failed step ends FAILED.
C7_LinearOrderFailedAbsorbing ==
    /\ \A t \in dag.tasks :
         /\ Executed(t) => \A p \in Predecessors(t) : ti[p] = "success"
         /\ try_number[t] <= 1
    /\ (RunFinished /\ \E t \in dag.tasks : ti[t] = "failed") =>
           RunState = "failed"

\* The statement of C7 for a ground-truth file with at least one entry.
LinearOrderWithChecks ==
    dag.group # {} => C7_LinearOrderFailedAbsorbing

\* C8: when a check fails, done is never executed and the run does not end
\* in success; the failure stays with that check, and the checks that
\* succeeded stay succeeded.
C8_FailedCheckFailsRun ==
    /\ []((\E t \in dag.group : ti[t] = "failed") =>
            /\ try_number["done"] = 0
            /\ ti["done"] \in {"none", "upstream_failed"}
            /\ RunState # "success"
            /\ RunFinished => RunState = "failed")
    /\ [][~TriggerRun =>
            \A t \in dag.group :
                ti[t] \in {"success", "failed"} => ti'[t] = ti[t]]_vars

C8_Witness ==
    /\ RunFinished
    /\ RunState = "failed"
    /\ ti["done"] = "upstream_failed"
    /\ \E a \in dag.group, b \in dag.group :
         ti[a] = "failed" /\ ti[b] = "success"

\* The objects of a store outside bucket/key.
ObjectsElsewhere(objects, key, bucket_name) ==
    objects \ ObjectsAt(objects, key, bucket_name)

\* upload_to_s3 ends in success in this step.
UploadSucceeds ==
    ti["upload_to_s3"] = "running" /\ ti'["upload_to_s3"] = "success"

\* C9: on every store, holding an object at the computed key or not, the
\* upload succeeds and leaves exactly one object at that key, with the
\* content of the local file; a second upload leaves the store as the first
\* left it; no other key changes.
C9_UploadIdempotent ==
    /\ [](LET key == S3Key(aws_configs)
              bucket == aws_configs.s3_bucket
              once == UploadResult(s3, aws_configs, csv)
              twice == UploadResult(once.objects, aws_configs, csv)
          IN  /\ once.ok /\ twice.ok
              /\ twice.objects = once.objects
              /\ Cardinality(ObjectsAt(once.objects, key, bucket)) = 1
              /\ \A o \in ObjectsAt(once.objects, key, bucket) :
                   o.body = csv
              /\ ObjectsElsewhere(once.objects, key, bucket) =
                   ObjectsElsewhere(s3, key, bucket))
    /\ [][UploadSucceeds =>
            LET key == S3Key(aws_configs)
                bucket == aws_configs.s3_bucket
            IN  /\ Cardinality(ObjectsAt(s3', key, bucket)) = 1
                /\ \A o \in ObjectsAt(s3', key, bucket) : o.body = csv
                /\ ObjectsElsewhere(s3', key, bucket) =
                     ObjectsElsewhere(s3, key, bucket)
                /\ (\E o \in ObjectsAt(s3, key, bucket) : o.body = csv)
                     => s3' = s3]_vars

\* Rows are in the warehouse before this run's load: an earlier run copied
\* them from an object, and the store holds one object only, so this run's
\* upload wrote to the key of that object.
C9_Witness ==
    /\ ti["upload_to_s3"] = "success"
    /\ copy_src = None
    /\ \E t \in Tables : redshift[t] # {}
    /\ Cardinality(s3) = 1
    /\ ObjectsAt(s3, xcom["upload_to_s3"].s3_key,
                 xcom["upload_to_s3"].s3_bucket) = s3

\* C10: with the scheduler running every ready task instance, every run
\* ends; a run without a failed step ends in success with every task
\* executed exactly once, a run with a failed step ends failed, also for a
\* ground-truth file without entries.
C10_EveryRunEnds ==
    /\ (~RunFinished) ~> RunFinished
    /\ [](\A t \in dag.tasks : try_number[t] <= 1)
    /\ [](RunFinished =>
            IF \A t \in dag.tasks : ti[t] # "failed"
            THEN /\ RunState = "success"
                 /\ \A t \in dag.tasks :
                      ti[t] = "success" /\ try_number[t] = 1
            ELSE RunState = "failed")

C10_Witness ==
    /\ RunFinished
    /\ RunState = "success"
    /\ dag.group = {}
    /\ \A t \in dag.tasks : try_number[t] = 1

====
